---- MODULE Spec2Model ----
(***************************************************************************)
(* Orchestration in the gammapy tutorials and CI configuration:            *)
(*   - tutorials/analysis_2.ipynb : data reduction, stacking, fit, flux    *)
(*     points, run cell by cell in one kernel;                             *)
(*   - tutorials/sed_fitting.ipynb: flux point stacking, filtering, fits;  *)
(*   - the travis-ci build matrix (stages, per-job env, script phase).     *)
(* A cell is one action, except the data reduction loop, whose body is     *)
(* one action per statement.  Every library call may raise; nothing in     *)
(* the notebooks catches an exception.                                     *)
(***************************************************************************)
EXTENDS Integers, Sequences, FiniteSets, TLC

(***************************************************************************)
(* Bounds of the model.                                                    *)
(***************************************************************************)
MaxObs == 3

\* rows of the three catalog tables together
MaxRows == 3

\* jobs of a build the runner lets run at the same time
MaxConcurrent == 1

\* jobs of a build whose test command fails
MaxFaults == 1

ObsIds == 1..MaxObs

\* event counts an observation can hold inside the target geometry
CountValues == {1, 2}

VARIABLES
    \* ---- the observation archive on disk ($GAMMAPY_DATA/hess-dl3-dr1)
    obs_table,          \* OBS_ID column of the index table, in table order
    inCircle,           \* ids whose pointing lies inside the sky circle
    events,             \* events[o]: counts of observation o in the geometry
    \* ---- kernel of analysis_2
    pcA,                \* the cell to run next, "done" or "error"
    failedA,            \* the cell or loop statement that raised, or ""
    data_store,         \* TRUE once DataStore.from_dir returned
    selected_obs_table, \* OBS_ID column of the selected rows
    observations,       \* the Observations list, a sequence of ids
    geom,               \* TRUE once the WcsGeom exists
    stacked,            \* the target MapDataset
    makersReady,        \* names of the maker objects constructed
    loopI,              \* 1-based position of `obs` in observations
    loopPos,            \* statement of the loop cell to run next
    cutout,             \* loop variable `cutout`
    dataset,            \* loop variable `dataset`
    inflight,           \* loop positions whose body started and has not stacked
    stackedLog,         \* history: the datasets handed to stacked.stack
    sky_model,          \* name of the SkyModel, "" before it is defined
    fitRuns,            \* history: the dataset as it was at each Fit.run
    covarSet,           \* TRUE once the covariance was copied on `spec`
    plotsA,             \* history: the plot_error calls
    fpe,                \* source of the FluxPointsEstimator, "" before
    fpeRuns,            \* history: the fpe.run() calls
    logA,               \* history: the cells that ran to completion
    readsA,             \* history: the paths analysis_2 read
    writesA,            \* history: the paths analysis_2 wrote
    \* ---- the catalogs on disk and the kernel of sed_fitting
    catalogs,           \* catalogs[c]: the flux point table of the source in c
    pcB,                \* the cell to run next, "done" or "error"
    failedB,            \* the cell that raised, or ""
    catalogsLoaded,     \* the catalog objects constructed
    sources,            \* the catalogs whose source object was looked up
    flux_points_cat,    \* flux_points_gammacat / _3fhl / _3fgl, by catalog
    flux_pointsB,       \* `flux_points`: the stacked, then filtered table
    tableB,             \* `t`: the stacked table with its dnde_err column
    specModelsB,        \* the spectral models constructed so far
    modelB,             \* spectral model inside the current `model`
    fitsB,              \* history: the Fit.run calls
    covB,               \* covB[m]: the fit result whose covariance m holds
    plotsB,             \* history: the plot_error calls
    logB,               \* history: the cells that ran to completion
    readsB,             \* history: the paths sed_fitting read
    \* ---- file system shared by both notebooks
    files,              \* path -> what is stored there
    \* ---- one build of the CI matrix
    jobPhase,           \* jobPhase[j]: where job j stands
    jobEnv,             \* jobEnv[j]: the environment of the job's shell
    jobRan,             \* jobRan[j]: history, the commands the shell ran
    jobFailed,          \* jobFailed[j]: a script command returned non-zero
    faults              \* commands that failed so far in the build

varsArchive == <<obs_table, inCircle, events>>

varsSel == <<data_store, selected_obs_table, observations>>

varsLoop == <<loopI, loopPos, cutout, dataset, inflight, stackedLog>>

varsFit == <<sky_model, fitRuns, covarSet, plotsA, fpe, fpeRuns>>

varsA == <<pcA, failedA, varsSel, geom, stacked, makersReady, varsLoop, varsFit,
           logA, readsA, writesA>>

varsTablesB == <<catalogsLoaded, sources, flux_points_cat, flux_pointsB, tableB>>

varsFitB == <<specModelsB, modelB, fitsB, covB, plotsB>>

varsB == <<pcB, failedB, varsTablesB, varsFitB, logB, readsB>>

varsCI == <<jobPhase, jobEnv, jobRan, jobFailed, faults>>

vars == <<varsArchive, varsA, catalogs, varsB, files, varsCI>>

(***************************************************************************)
(* Helpers.                                                                *)
(***************************************************************************)
RECURSIVE SeqSum(_)
SeqSum(s) == IF s = <<>> THEN 0 ELSE Head(s) + SeqSum(Tail(s))

RECURSIVE SetSum(_, _)
SetSum(S, f) ==
    IF S = {} THEN 0
    ELSE LET x == CHOOSE y \in S : TRUE IN f[x] + SetSum(S \ {x}, f)

Range(s) == {s[i] : i \in 1..Len(s)}

Perms(S) == {p \in [1..Cardinality(S) -> S] : \A i, j \in 1..Cardinality(S) :
                 p[i] = p[j] => i = j}

IsPrefix(s, t) == Len(s) <= Len(t) /\ \A i \in 1..Len(s) : s[i] = t[i]

(***************************************************************************)
(* analysis_2.ipynb: the code cells in file order.                         *)
(***************************************************************************)
CellsA == << "matplotlib", "imports", "imports_gammapy", "data_store",
             "select", "get_obs", "geom", "create", "makers", "maker_fov",
             "loop", "inspect", "mkdir", "write", "model_def", "assign",
             "fit", "to_table", "plot_residuals", "region",
             "plot_residuals_region", "residuals", "stat_profile",
             "plot_profile", "covar", "plot_error", "fpe", "fpe_run",
             "plot_flux_points" >>

IndexA(c) == CHOOSE i \in 1..Len(CellsA) : CellsA[i] = c

\* variant of NextCellA: the fit cell placed before the model assignment
NextCellA_fitFirst(c) ==
    CASE c = "model_def" -> "fit"
      [] c = "fit" -> "assign"
      [] c = "assign" -> "to_table"
      [] OTHER -> IF IndexA(c) = Len(CellsA) THEN "done"
                  ELSE CellsA[IndexA(c) + 1]

\* run top to bottom: the cell after c, "done" after the last one
NextCellA(c) == IF IndexA(c) = Len(CellsA) THEN "done" ELSE CellsA[IndexA(c) + 1]

\* cells that only import, display or bind a value nothing later depends on
ShowCellsA == {"matplotlib", "imports", "imports_gammapy", "inspect",
               "to_table", "plot_residuals", "region",
               "plot_residuals_region", "residuals", "stat_profile",
               "plot_profile"}

NoDataset == [exists |-> FALSE, obs |-> 0, counts |-> 0, makers |-> <<>>,
              models |-> ""]

\* paths on disk: the two data directories under $GAMMAPY_DATA, the output
\* folder of analysis_2 and the file written into it
HessDir == "$GAMMAPY_DATA/hess-dl3-dr1"

CatalogDir == "$GAMMAPY_DATA/catalogs"

OutDir == "analysis_2"

OutFile == "analysis_2/crab-stacked-dataset.fits.gz"

Paths == {HessDir, CatalogDir, OutDir, OutFile}

NoFile == [exists |-> FALSE, data |-> NoDataset]

Folder == [exists |-> TRUE, data |-> NoDataset]

\* what an action of analysis_2 leaves alone outside its own kernel
othersA == <<varsArchive, catalogs, varsB, varsCI>>

\* the cell ran to its end: the next cell is up
DoneA(c) == /\ pcA' = NextCellA(c)
            /\ logA' = Append(logA, c)
            /\ UNCHANGED failedA

\* variant of RaiseA: the exception is caught and the run goes on
RaiseA_swallow(c, stmt) ==
    /\ pcA = c
    /\ pcA' = NextCellA(c)
    /\ failedA' = stmt
    /\ UNCHANGED <<varsSel, geom, stacked, makersReady, varsLoop, varsFit,
                   logA, readsA, writesA, files, othersA>>

\* a call of cell c raised at statement stmt: no handler, the run ends there
RaiseA(c, stmt) ==
    /\ pcA = c
    /\ pcA' = "error"
    /\ failedA' = stmt
    /\ UNCHANGED <<varsSel, geom, stacked, makersReady, varsLoop, varsFit,
                   logA, readsA, writesA,
                   files, othersA>>

\* imports, plots, tables: nothing later reads what these cells bind
ShowCellA ==
    /\ pcA \in ShowCellsA
    /\ DoneA(pcA)
    /\ UNCHANGED <<varsSel, geom, stacked, makersReady, varsLoop, varsFit,
                   readsA, writesA,
                   files, othersA>>

\* data_store = DataStore.from_dir("$GAMMAPY_DATA/hess-dl3-dr1")
OpenDataStore ==
    /\ pcA = "data_store"
    /\ files[HessDir].exists
    /\ data_store' = TRUE
    /\ readsA' = readsA \cup {HessDir}
    /\ DoneA("data_store")
    /\ UNCHANGED <<selected_obs_table, observations, geom, stacked,
                   makersReady, varsLoop, varsFit, writesA, files, othersA>>

\* obs_table.select_observations(selection): the rows inside the sky circle,
\* in table order
select_observations(table) == SelectSeq(table, LAMBDA o : o \in inCircle)

SelectObservations ==
    /\ pcA = "select"
    /\ selected_obs_table' = select_observations(obs_table)
    /\ DoneA("select")
    /\ UNCHANGED <<data_store, observations, geom, stacked, makersReady,
                   varsLoop, varsFit, readsA, writesA,
                   files, othersA>>

\* observations = data_store.get_observations(selected_obs_table["OBS_ID"])
GetObservations ==
    /\ pcA = "get_obs"
    /\ observations' = selected_obs_table
    /\ DoneA("get_obs")
    /\ UNCHANGED <<data_store, selected_obs_table, geom, stacked, makersReady,
                   varsLoop, varsFit, readsA, writesA,
                   files, othersA>>

\* energy_axis, geom = WcsGeom.create(...), energy_axis_true
CreateGeom ==
    /\ pcA = "geom"
    /\ geom' = TRUE
    /\ DoneA("geom")
    /\ UNCHANGED <<varsSel, stacked, makersReady, varsLoop, varsFit, readsA,
                   writesA, files, othersA>>

\* MapDataset.create(geom, ...): an empty dataset on the target geometry
MapDatasetCreate == [exists |-> TRUE, obs |-> 0, counts |-> 0,
                     makers |-> <<>>, models |-> ""]

CreateStacked ==
    /\ pcA = "create"
    /\ stacked' = MapDatasetCreate
    /\ DoneA("create")
    /\ UNCHANGED <<varsSel, geom, makersReady, varsLoop, varsFit, readsA,
                   writesA, files, othersA>>

\* maker = MapDatasetMaker(); maker_safe_mask = SafeMaskMaker(...)
CreateMakers ==
    /\ pcA = "makers"
    /\ makersReady' = makersReady \cup {"maker", "maker_safe_mask"}
    /\ DoneA("makers")
    /\ UNCHANGED <<varsSel, geom, stacked, varsLoop, varsFit, readsA, writesA,
                   files, othersA>>

\* exclusion mask and maker_fov = FoVBackgroundMaker(...)
CreateMakerFov ==
    /\ pcA = "maker_fov"
    /\ makersReady' = makersReady \cup {"maker_fov"}
    /\ DoneA("maker_fov")
    /\ UNCHANGED <<varsSel, geom, stacked, varsLoop, varsFit, readsA, writesA,
                   files, othersA>>

(***************************************************************************)
(* The data reduction loop.  The maker and dataset methods are library     *)
(* calls; they are modelled by what the notebook and the specification     *)
(* say of them: the maker fills a new dataset on the cutout geometry,      *)
(* each later maker returns the dataset it was given with its step         *)
(* applied, and stacking sums.                                             *)
(***************************************************************************)
\* stacked.cutout(position, width): the target cut around the pointing
DatasetCutout(target) == [target EXCEPT !.makers = <<"cutout">>]

\* maker.run(cutout, obs): a MapDataset filled in the cutout geometry
MapDatasetMakerRun(cut, o) ==
    [exists |-> TRUE, obs |-> o, counts |-> events[o],
     makers |-> Append(cut.makers, "MapDatasetMaker"), models |-> ""]

\* maker_fov.run(dataset): the background norm is fitted
FoVBackgroundMakerRun(ds) ==
    [ds EXCEPT !.makers = Append(@, "FoVBackgroundMaker")]

\* maker_safe_mask.run(dataset, obs): the data quality cut
SafeMaskMakerRun(ds, o) == [ds EXCEPT !.makers = Append(@, "SafeMaskMaker")]

\* target.stack(ds): ds is summed onto the target, in place
DatasetStack(target, ds) == [target EXCEPT !.counts = @ + ds.counts]

\* variant of LoopFor: the next observation is taken up while the body of
\* the one before is still in work
LoopFor_overlap ==
    /\ pcA = "loop"
    /\ loopI < Len(observations)
    /\ loopI' = loopI + 1
    /\ inflight' = inflight \cup {loopI + 1}
    /\ loopPos' = "cutout"
    /\ UNCHANGED <<pcA, failedA, logA, varsSel, geom, stacked, makersReady,
                   cutout, dataset, stackedLog, varsFit, readsA, writesA,
                   files, othersA>>

\* `for obs in observations:` binds the next observation
LoopFor ==
    /\ pcA = "loop"
    /\ loopPos = "for"
    /\ loopI < Len(observations)
    /\ loopI' = loopI + 1
    /\ inflight' = inflight \cup {loopI + 1}
    /\ loopPos' = "cutout"
    /\ UNCHANGED <<pcA, failedA, logA, varsSel, geom, stacked, makersReady,
                   cutout, dataset, stackedLog, varsFit, readsA, writesA,
                   files, othersA>>

\* the iterator is exhausted: the loop, and the cell, end
LoopEnd ==
    /\ pcA = "loop"
    /\ loopPos = "for"
    /\ loopI >= Len(observations)
    /\ DoneA("loop")
    /\ UNCHANGED <<varsSel, geom, stacked, makersReady, varsLoop, varsFit,
                   readsA, writesA,
                   files, othersA>>

\* cutout = stacked.cutout(obs.pointing_radec, width=2 * offset_max)
LoopCutout ==
    /\ pcA = "loop"
    /\ loopPos = "cutout"
    /\ cutout' = DatasetCutout(stacked)
    /\ loopPos' = "maker.run"
    /\ UNCHANGED <<pcA, failedA, logA, varsSel, geom, stacked, makersReady,
                   loopI, dataset, inflight, stackedLog, varsFit, readsA,
                   writesA, files, othersA>>

\* dataset = maker.run(cutout, obs)
LoopMaker ==
    /\ pcA = "loop"
    /\ loopPos = "maker.run"
    /\ dataset' = MapDatasetMakerRun(cutout, observations[loopI])
    /\ loopPos' = "maker_fov.run"
    /\ UNCHANGED <<pcA, failedA, logA, varsSel, geom, stacked, makersReady,
                   loopI, cutout, inflight, stackedLog, varsFit, readsA,
                   writesA, files, othersA>>

\* dataset = maker_fov.run(dataset), then the norm is printed
LoopMakerFov ==
    /\ pcA = "loop"
    /\ loopPos = "maker_fov.run"
    /\ dataset' = FoVBackgroundMakerRun(dataset)
    /\ loopPos' = "maker_safe_mask.run"
    /\ UNCHANGED <<pcA, failedA, logA, varsSel, geom, stacked, makersReady,
                   loopI, cutout, inflight, stackedLog, varsFit, readsA,
                   writesA, files, othersA>>

\* dataset = maker_safe_mask.run(dataset, obs)
LoopSafeMask ==
    /\ pcA = "loop"
    /\ loopPos = "maker_safe_mask.run"
    /\ dataset' = SafeMaskMakerRun(dataset, observations[loopI])
    /\ loopPos' = "stack"
    /\ UNCHANGED <<pcA, failedA, logA, varsSel, geom, stacked, makersReady,
                   loopI, cutout, inflight, stackedLog, varsFit, readsA,
                   writesA, files, othersA>>

\* variant of LoopStack: the cutout is stacked, not the reduced dataset
LoopStack_cutout ==
    /\ pcA = "loop"
    /\ loopPos = "stack"
    /\ stacked' = DatasetStack(stacked, cutout)
    /\ stackedLog' = Append(stackedLog, [pos |-> loopI, ds |-> cutout])
    /\ inflight' = inflight \ {loopI}
    /\ loopPos' = "for"
    /\ UNCHANGED <<pcA, failedA, logA, varsSel, geom, makersReady, loopI,
                   cutout, dataset, varsFit, readsA, writesA, files, othersA>>

\* variant of LoopStack: the stack call dedented out of the loop body, so
\* that only the dataset of the last observation is stacked
LoopStack_dedent ==
    /\ pcA = "loop"
    /\ loopPos = "stack"
    /\ IF loopI = Len(observations)
       THEN /\ stacked' = DatasetStack(stacked, dataset)
            /\ stackedLog' = Append(stackedLog, [pos |-> loopI, ds |-> dataset])
       ELSE UNCHANGED <<stacked, stackedLog>>
    /\ inflight' = inflight \ {loopI}
    /\ loopPos' = "for"
    /\ UNCHANGED <<pcA, failedA, logA, varsSel, geom, makersReady, loopI,
                   cutout, dataset, varsFit, readsA, writesA, files, othersA>>

\* stacked.stack(dataset), the last statement of the body
LoopStack ==
    /\ pcA = "loop"
    /\ loopPos = "stack"
    /\ stacked' = DatasetStack(stacked, dataset)
    /\ stackedLog' = Append(stackedLog, [pos |-> loopI, ds |-> dataset])
    /\ inflight' = inflight \ {loopI}
    /\ loopPos' = "for"
    /\ UNCHANGED <<pcA, failedA, logA, varsSel, geom, makersReady, loopI,
                   cutout, dataset, varsFit, readsA, writesA,
                   files, othersA>>

(***************************************************************************)
(* analysis_2.ipynb after the loop: save, model, fit, flux points.         *)
(***************************************************************************)
\* path = Path("analysis_2"); path.mkdir(exist_ok=True)
MakeDir ==
    /\ pcA = "mkdir"
    /\ files' = [files EXCEPT ![OutDir] = Folder]
    /\ writesA' = writesA \cup {OutDir}
    /\ DoneA("mkdir")
    /\ UNCHANGED <<varsSel, geom, stacked, makersReady, varsLoop, varsFit,
                   readsA, othersA>>

\* stacked.write(path / "crab-stacked-dataset.fits.gz", overwrite=True)
WriteStacked ==
    /\ pcA = "write"
    /\ files[OutDir].exists
    /\ files' = [files EXCEPT ![OutFile] = [exists |-> TRUE, data |-> stacked]]
    /\ writesA' = writesA \cup {OutFile}
    /\ DoneA("write")
    /\ UNCHANGED <<varsSel, geom, stacked, makersReady, varsLoop, varsFit,
                   readsA, othersA>>

\* variant of DefineModel: the sky model is given another name
DefineModel_otherName ==
    /\ pcA = "model_def"
    /\ sky_model' = "crab-nebula"
    /\ DoneA("model_def")
    /\ UNCHANGED <<varsSel, geom, stacked, makersReady, varsLoop, fitRuns,
                   covarSet, plotsA, fpe, fpeRuns, readsA, writesA,
                   files, othersA>>

\* sky_model = SkyModel(spatial_model, spectral_model, name="crab")
DefineModel ==
    /\ pcA = "model_def"
    /\ sky_model' = "crab"
    /\ DoneA("model_def")
    /\ UNCHANGED <<varsSel, geom, stacked, makersReady, varsLoop, fitRuns,
                   covarSet, plotsA, fpe, fpeRuns, readsA, writesA,
                   files, othersA>>

\* variant of AssignModel: the dataset is saved again once it has its model
AssignModel_rewrites ==
    /\ pcA = "assign"
    /\ stacked' = [stacked EXCEPT !.models = sky_model]
    /\ files' = [files EXCEPT ![OutFile] = [exists |-> TRUE, data |-> stacked']]
    /\ DoneA("assign")
    /\ UNCHANGED <<varsSel, geom, makersReady, varsLoop, varsFit, readsA,
                   writesA, othersA>>

\* stacked.models = sky_model
AssignModel ==
    /\ pcA = "assign"
    /\ stacked' = [stacked EXCEPT !.models = sky_model]
    /\ DoneA("assign")
    /\ UNCHANGED <<varsSel, geom, makersReady, varsLoop, varsFit, readsA,
                   writesA, files, othersA>>

\* fit = Fit([stacked]); result = fit.run(...)
RunFit ==
    /\ pcA = "fit"
    /\ fitRuns' = Append(fitRuns, stacked)
    /\ DoneA("fit")
    /\ UNCHANGED <<varsSel, geom, stacked, makersReady, varsLoop, sky_model,
                   covarSet, plotsA, fpe, fpeRuns, readsA, writesA,
                   files, othersA>>

\* spec.parameters.covariance = result.parameters.get_subcovariance(...)
SetCovariance ==
    /\ pcA = "covar"
    /\ covarSet' = TRUE
    /\ DoneA("covar")
    /\ UNCHANGED <<varsSel, geom, stacked, makersReady, varsLoop, sky_model,
                   fitRuns, plotsA, fpe, fpeRuns, readsA, writesA,
                   files, othersA>>

\* spec.plot(...); spec.plot_error(...), in two cells: after the covariance
\* is set and, with the flux points, at the end
PlotError ==
    /\ pcA \in {"plot_error", "plot_flux_points"}
    /\ plotsA' = Append(plotsA, [cell |-> pcA, cov |-> covarSet,
                                 fitted |-> fitRuns # <<>>])
    /\ DoneA(pcA)
    /\ UNCHANGED <<varsSel, geom, stacked, makersReady, varsLoop, sky_model,
                   fitRuns, covarSet, fpe, fpeRuns, readsA, writesA,
                   files, othersA>>

\* fpe = FluxPointsEstimator(datasets=[stacked], e_edges, source="crab")
CreateEstimator ==
    /\ pcA = "fpe"
    /\ fpe' = "crab"
    /\ DoneA("fpe")
    /\ UNCHANGED <<varsSel, geom, stacked, makersReady, varsLoop, sky_model,
                   fitRuns, covarSet, plotsA, fpeRuns, readsA, writesA,
                   files, othersA>>

\* flux_points = fpe.run()
RunEstimator ==
    /\ pcA = "fpe_run"
    /\ fpeRuns' = Append(fpeRuns, [source |-> fpe, models |-> stacked.models,
                                   fitted |-> fitRuns # <<>>])
    /\ DoneA("fpe_run")
    /\ UNCHANGED <<varsSel, geom, stacked, makersReady, varsLoop, sky_model,
                   fitRuns, covarSet, plotsA, fpe, readsA, writesA,
                   files, othersA>>

\* any cell but the loop: one of its calls raises
RaiseCellA == \E c \in Range(CellsA) \ {"loop"} : RaiseA(c, c)

\* a statement of the loop body raises: the loop is left at once
RaiseLoopA == loopPos # "for" /\ RaiseA("loop", loopPos)

NextA ==
    \/ ShowCellA
    \/ OpenDataStore
    \/ SelectObservations
    \/ GetObservations
    \/ CreateGeom
    \/ CreateStacked
    \/ CreateMakers
    \/ CreateMakerFov
    \/ LoopFor
    \/ LoopCutout
    \/ LoopMaker
    \/ LoopMakerFov
    \/ LoopSafeMask
    \/ LoopStack
    \/ LoopEnd
    \/ MakeDir
    \/ WriteStacked
    \/ DefineModel
    \/ AssignModel
    \/ RunFit
    \/ SetCovariance
    \/ PlotError
    \/ CreateEstimator
    \/ RunEstimator
    \/ RaiseCellA
    \/ RaiseLoopA

\* a fresh kernel of analysis_2
InitKernelA ==
    /\ pcA = CellsA[1]
    /\ failedA = ""
    /\ data_store = FALSE
    /\ selected_obs_table = <<>>
    /\ observations = <<>>
    /\ geom = FALSE
    /\ stacked = NoDataset
    /\ makersReady = {}
    /\ loopI = 0
    /\ loopPos = "for"
    /\ cutout = NoDataset
    /\ dataset = NoDataset
    /\ inflight = {}
    /\ stackedLog = <<>>
    /\ sky_model = ""
    /\ fitRuns = <<>>
    /\ covarSet = FALSE
    /\ plotsA = <<>>
    /\ fpe = ""
    /\ fpeRuns = <<>>
    /\ logA = <<>>
    /\ readsA = {}
    /\ writesA = {}

\* the archive: any table order, any part of it inside the circle, any
\* counts for the observations inside (the event lists of the others are
\* never opened and are held at one value)
InitArchive ==
    /\ obs_table \in Perms(ObsIds)
    /\ inCircle \in SUBSET ObsIds
    /\ events \in {e \in [ObsIds -> CountValues] :
                      \A o \in ObsIds \ inCircle :
                          e[o] = CHOOSE n \in CountValues : TRUE}

(***************************************************************************)
(* sed_fitting.ipynb.  Table cells are floats: nan, inf or a finite        *)
(* number; arithmetic on them is numpy's.                                  *)
(***************************************************************************)
NaN == [kind |-> "nan", v |-> 0]

Inf == [kind |-> "inf", v |-> 0]

Fin(n) == [kind |-> "fin", v |-> n]

\* a + b
FAdd(a, b) == IF a.kind = "nan" \/ b.kind = "nan" THEN NaN
              ELSE IF a.kind = "inf" \/ b.kind = "inf" THEN Inf
              ELSE Fin(a.v + b.v)

\* 0.5 * a
FHalf(a) == IF a.kind = "fin" THEN Fin(a.v \div 2) ELSE a

\* np.isfinite(a)
IsFinite(a) == a.kind = "fin"

\* the values a lower and an upper error can hold in a catalog table
ErrnValues == {NaN, Fin(2)}

ErrpValues == {Inf, Fin(6)}

\* the catalogs in the order the notebook stacks their tables
CatNames == <<"gamma-cat", "3fhl", "3fgl">>

\* the SED type of the flux_points of a catalog source: the Fermi-LAT
\* catalogs give integral flux points
NativeSed(c) == IF c = "gamma-cat" THEN "dnde" ELSE "flux"

\* source.flux_points: one row per point, with its two errors
SourceFluxPoints(c) ==
    [i \in 1..Len(catalogs[c]) |->
        [cat |-> c, k |-> i, sed |-> NativeSed(c), conv |-> "",
         errn |-> catalogs[c][i][1], errp |-> catalogs[c][i][2]]]

\* fp.to_sed_type(sed_type, model=m): every row is converted with model m
to_sed_type(fp, sed_type, m) ==
    [i \in 1..Len(fp) |-> [fp[i] EXCEPT !.sed = sed_type, !.conv = m]]

\* FluxPoints.stack(list): the tables one after the other
RECURSIVE FluxPointsStack(_)
FluxPointsStack(list) ==
    IF list = <<>> THEN <<>> ELSE Head(list) \o FluxPointsStack(Tail(list))

\* t["dnde_err"] = 0.5 * (t["dnde_errn"] + t["dnde_errp"])
AddErrColumn(t) ==
    [i \in 1..Len(t) |->
        [cat |-> t[i].cat, k |-> t[i].k, sed |-> t[i].sed, conv |-> t[i].conv,
         errn |-> t[i].errn, errp |-> t[i].errp,
         dnde_err |-> FHalf(FAdd(t[i].errn, t[i].errp))]]

\* variant of IsUlMask: the mask the comment describes, dnde_errn is not nan
IsUlMask_errnOnly(t) == [i \in 1..Len(t) |-> t[i].errn.kind # "nan"]

\* is_ul = np.isfinite(t["dnde_err"]): the mask of the rows to keep
IsUlMask(t) == [i \in 1..Len(t) |-> IsFinite(t[i].dnde_err)]

\* t[mask]: the rows whose mask entry is True, in table order
RECURSIVE MaskRows(_, _)
MaskRows(t, mask) ==
    IF t = <<>> THEN <<>>
    ELSE (IF Head(mask) THEN <<Head(t)>> ELSE <<>>)
             \o MaskRows(Tail(t), Tail(mask))

CellsB == << "matplotlib", "imports", "catalogs", "sources",
             "flux_points_gammacat", "to_sed_type", "stack_filter",
             "pwl_def", "pwl_fit", "print_result", "print_pwl", "pwl_plot",
             "ecpl_def", "ecpl_fit", "ecpl_plot",
             "log_parabola_def", "log_parabola_fit", "log_parabola_plot",
             "empty" >>

IndexB(c) == CHOOSE i \in 1..Len(CellsB) : CellsB[i] = c

NextCellB(c) == IF IndexB(c) = Len(CellsB) THEN "done" ELSE CellsB[IndexB(c) + 1]

ShowCellsB == {"matplotlib", "imports", "print_result", "print_pwl", "empty"}

\* the three spectral models with the cells that define, fit and plot them
\* and the variable the fit result is bound to
ModelsB == {"pwl", "ecpl", "log_parabola"}

DefCell(m) == CASE m = "pwl" -> "pwl_def" [] m = "ecpl" -> "ecpl_def"
                [] m = "log_parabola" -> "log_parabola_def"

FitCell(m) == CASE m = "pwl" -> "pwl_fit" [] m = "ecpl" -> "ecpl_fit"
                [] m = "log_parabola" -> "log_parabola_fit"

PlotCell(m) == CASE m = "pwl" -> "pwl_plot" [] m = "ecpl" -> "ecpl_plot"
                 [] m = "log_parabola" -> "log_parabola_plot"

ResultVar(m) == CASE m = "pwl" -> "result_pwl" [] m = "ecpl" -> "result_ecpl"
                  [] m = "log_parabola" -> "result_log_parabola"

othersB == <<varsArchive, catalogs, varsA, varsCI>>

DoneB(c) == /\ pcB' = NextCellB(c)
            /\ logB' = Append(logB, c)
            /\ UNCHANGED failedB

RaiseB(c) ==
    /\ pcB = c
    /\ pcB' = "error"
    /\ failedB' = c
    /\ UNCHANGED <<varsTablesB, varsFitB, logB, readsB, files, othersB>>

ShowCellB ==
    /\ pcB \in ShowCellsB
    /\ DoneB(pcB)
    /\ UNCHANGED <<varsTablesB, varsFitB, readsB, files, othersB>>

\* variant of LoadCatalogs: the notebook also opens the file analysis_2 wrote
LoadCatalogs_fromOutput ==
    /\ pcB = "catalogs"
    /\ files[CatalogDir].exists
    /\ catalogsLoaded' = Range(CatNames)
    /\ readsB' = readsB \cup {CatalogDir, OutFile}
    /\ DoneB("catalogs")
    /\ UNCHANGED <<sources, flux_points_cat, flux_pointsB, tableB, varsFitB,
                   files, othersB>>

\* catalog_3fgl, catalog_3fhl, catalog_gammacat = SOURCE_CATALOGS[...]()
LoadCatalogs ==
    /\ pcB = "catalogs"
    /\ files[CatalogDir].exists
    /\ catalogsLoaded' = Range(CatNames)
    /\ readsB' = readsB \cup {CatalogDir}
    /\ DoneB("catalogs")
    /\ UNCHANGED <<sources, flux_points_cat, flux_pointsB, tableB, varsFitB,
                   files, othersB>>

\* source_fermi_3fgl, source_fermi_3fhl, source_gammacat = catalog[name]
LookupSources ==
    /\ pcB = "sources"
    /\ sources' = catalogsLoaded
    /\ DoneB("sources")
    /\ UNCHANGED <<catalogsLoaded, flux_points_cat, flux_pointsB, tableB,
                   varsFitB, readsB, files, othersB>>

\* flux_points_gammacat = source_gammacat.flux_points
LoadGammacat ==
    /\ pcB = "flux_points_gammacat"
    /\ flux_points_cat' = [flux_points_cat EXCEPT
                              !["gamma-cat"] = SourceFluxPoints("gamma-cat")]
    /\ DoneB("flux_points_gammacat")
    /\ UNCHANGED <<catalogsLoaded, sources, flux_pointsB, tableB, varsFitB,
                   readsB, files, othersB>>

\* variant of ConvertFermi: each Fermi table converted with the spectral
\* model of the other source
ConvertFermi_swapped ==
    /\ pcB = "to_sed_type"
    /\ flux_points_cat' = [flux_points_cat EXCEPT
          !["3fgl"] = to_sed_type(SourceFluxPoints("3fgl"), "dnde", "3fhl"),
          !["3fhl"] = to_sed_type(SourceFluxPoints("3fhl"), "dnde", "3fgl")]
    /\ DoneB("to_sed_type")
    /\ UNCHANGED <<catalogsLoaded, sources, flux_pointsB, tableB, varsFitB,
                   readsB, files, othersB>>

\* flux_points_3fgl / _3fhl = source.flux_points.to_sed_type(
\*     sed_type="dnde", model=source.spectral_model())
ConvertFermi ==
    /\ pcB = "to_sed_type"
    /\ flux_points_cat' = [flux_points_cat EXCEPT
          !["3fgl"] = to_sed_type(SourceFluxPoints("3fgl"), "dnde", "3fgl"),
          !["3fhl"] = to_sed_type(SourceFluxPoints("3fhl"), "dnde", "3fhl")]
    /\ DoneB("to_sed_type")
    /\ UNCHANGED <<catalogsLoaded, sources, flux_pointsB, tableB, varsFitB,
                   readsB, files, othersB>>

\* flux_points = FluxPoints.stack([...]); t = flux_points.table;
\* t["dnde_err"] = ...; is_ul = np.isfinite(t["dnde_err"]);
\* flux_points = FluxPoints(t[is_ul])
StackAndFilter ==
    /\ pcB = "stack_filter"
    /\ LET t == AddErrColumn(FluxPointsStack(
                    <<flux_points_cat["gamma-cat"], flux_points_cat["3fhl"],
                      flux_points_cat["3fgl"]>>))
       IN /\ tableB' = t
          /\ flux_pointsB' = MaskRows(t, IsUlMask(t))
    /\ DoneB("stack_filter")
    /\ UNCHANGED <<catalogsLoaded, sources, flux_points_cat, varsFitB, readsB,
                   files, othersB>>

\* pwl / ecpl / log_parabola = ...SpectralModel(...);
\* model = SkyModel(spectral_model=...)
DefineSpectralModel(m) ==
    /\ pcB = DefCell(m)
    /\ specModelsB' = specModelsB \cup {m}
    /\ modelB' = m
    /\ DoneB(DefCell(m))
    /\ UNCHANGED <<varsTablesB, fitsB, covB, plotsB, readsB, files, othersB>>

\* dataset_m = FluxPointsDataset(model, flux_points);
\* fitter = Fit([dataset_m]); result_m = fitter.run()
FitModel(m) ==
    /\ pcB = FitCell(m)
    /\ fitsB' = Append(fitsB, [model |-> modelB, result |-> ResultVar(m),
                               points |-> flux_pointsB])
    /\ DoneB(FitCell(m))
    /\ UNCHANGED <<varsTablesB, specModelsB, modelB, covB, plotsB, readsB,
                   files, othersB>>

\* the model whose fit the variable r holds, "" when r is unbound
FittedBy(r) ==
    IF \E i \in 1..Len(fitsB) : fitsB[i].result = r
    THEN fitsB[CHOOSE i \in 1..Len(fitsB) :
                  /\ fitsB[i].result = r
                  /\ \A j \in 1..Len(fitsB) : fitsB[j].result = r => j <= i
              ].model
    ELSE ""

\* variant of PlotModel: every plot cell copies the covariance of result_pwl
PlotModel_pwlResult(m) ==
    /\ pcB = PlotCell(m)
    /\ covB' = [covB EXCEPT ![m] = FittedBy("result_pwl")]
    /\ plotsB' = Append(plotsB, [model |-> m, cov |-> covB'[m]])
    /\ DoneB(PlotCell(m))
    /\ UNCHANGED <<varsTablesB, specModelsB, modelB, fitsB, readsB, files,
                   othersB>>

\* m.plot(...); m.parameters.covariance = result_m.parameters.covariance;
\* m.plot_error(...)
PlotModel(m) ==
    /\ pcB = PlotCell(m)
    /\ covB' = [covB EXCEPT ![m] = FittedBy(ResultVar(m))]
    /\ plotsB' = Append(plotsB, [model |-> m, cov |-> covB'[m]])
    /\ DoneB(PlotCell(m))
    /\ UNCHANGED <<varsTablesB, specModelsB, modelB, fitsB, readsB, files,
                   othersB>>

RaiseCellB == \E c \in Range(CellsB) \ {"empty"} : RaiseB(c)

NextB ==
    \/ ShowCellB
    \/ LoadCatalogs
    \/ LookupSources
    \/ LoadGammacat
    \/ ConvertFermi
    \/ StackAndFilter
    \/ \E m \in ModelsB : DefineSpectralModel(m)
    \/ \E m \in ModelsB : FitModel(m)
    \/ \E m \in ModelsB : PlotModel(m)
    \/ RaiseCellB

\* a fresh kernel of sed_fitting
InitKernelB ==
    /\ pcB = CellsB[1]
    /\ failedB = ""
    /\ catalogsLoaded = {}
    /\ sources = {}
    /\ flux_points_cat = [c \in Range(CatNames) |-> <<>>]
    /\ flux_pointsB = <<>>
    /\ tableB = <<>>
    /\ specModelsB = {}
    /\ modelB = ""
    /\ fitsB = <<>>
    /\ covB = [m \in ModelsB |-> ""]
    /\ plotsB = <<>>
    /\ logB = <<>>
    /\ readsB = {}

(***************************************************************************)
(* The CI build matrix.  The runner exports env.global, then the env of    *)
(* the matrix entry, runs the install phase, then the commands of the      *)
(* script phase one after the other in the same shell.  A stage starts     *)
(* when every job of the stage before it has passed.                       *)
(***************************************************************************)

EnvVars == {"CMD", "SETUP_CMD", "FETCH_GAMMAPY_DATA", "RUN_INSTALL",
            "TEST_COVERAGE", "TEST_PACKAGING", "GAMMAPY_DATA"}

\* env.global, as far as the install, script and after_success phases read it
GlobalEnv ==
    [v \in EnvVars |->
        CASE v = "FETCH_GAMMAPY_DATA" -> "true"
          [] v = "TEST_COVERAGE" -> "false"
          [] v = "TEST_PACKAGING" -> "false"
          [] v = "RUN_INSTALL" -> "true"
          [] OTHER -> ""]

\* stages, in the order they run
Stages == <<"Initial tests", "Comprehensive tests">>

\* the top-level `stage:` key, the stage of an entry that names none
DefaultStage == "Comprehensive tests"

\* matrix.include: the stage key ("" when the entry has none) and the env
\* assignments of each entry
Matrix == <<
    [name |-> "Main test, used for coverage", stage |-> "Initial tests",
     env |-> {<<"TEST_COVERAGE", "true">>, <<"CMD", "make test-cov">>}],
    [name |-> "MacOS X tests", stage |-> "",
     env |-> {<<"CMD", "make test">>}],
    [name |-> "Run tests without optional dependencies", stage |-> "",
     env |-> {<<"CMD", "make test">>}],
    [name |-> "Run tests without GAMMAPY_DATA available",
     stage |-> "Initial tests",
     env |-> {<<"CMD", "make test">>, <<"FETCH_GAMMAPY_DATA", "false">>}],
    [name |-> "Build docs", stage |-> "",
     env |-> {<<"CMD", "make docs-all">>}],
    [name |-> "Test conda build", stage |-> "",
     env |-> {<<"CMD", "python setup.py bdist_conda">>,
              <<"TEST_PACKAGING", "true">>}],
    [name |-> "Test with Astropy dev version", stage |-> "",
     env |-> {<<"CMD", "make test">>}],
    [name |-> "Test with Sherpa dev", stage |-> "",
     env |-> {<<"SETUP_CMD", "make test">>}],
    [name |-> "Test Jupyter notebooks", stage |-> "",
     env |-> {<<"CMD", "make test-nb">>}],
    [name |-> "Test example scripts", stage |-> "",
     env |-> {<<"CMD", "make test-scripts">>}] >>

Jobs == 1..Len(Matrix)

StageOf(j) == IF Matrix[j].stage = "" THEN DefaultStage ELSE Matrix[j].stage

StageIndex(st) == CHOOSE i \in 1..Len(Stages) : Stages[i] = st

\* variant of JobStartEnv: env.global exported last, so that it wins
JobStartEnv_globalWins(j) ==
    [v \in EnvVars |->
        IF GlobalEnv[v] # "" THEN GlobalEnv[v]
        ELSE IF \E p \in Matrix[j].env : p[1] = v
             THEN (CHOOSE p \in Matrix[j].env : p[1] = v)[2]
             ELSE ""]

\* the environment a job starts with: env.global, overridden by the entry
JobStartEnv(j) ==
    [v \in EnvVars |->
        IF \E p \in Matrix[j].env : p[1] = v
        THEN (CHOOSE p \in Matrix[j].env : p[1] = v)[2]
        ELSE GlobalEnv[v]]

Running == {"fetch", "run_install", "cmd"}

Finished == {"passed", "failed", "canceled"}

StageJobs(st) == {j \in Jobs : StageOf(j) = st}

\* every job of every earlier stage has passed
EarlierStagesPassed(j) ==
    \A k \in Jobs : StageIndex(StageOf(k)) < StageIndex(StageOf(j))
                        => jobPhase[k] = "passed"

othersCI == <<varsArchive, varsA, catalogs, varsB, files>>

\* the runner starts a job: exports the env and runs the install phase
\* (conda set-up; conda-build when TEST_PACKAGING)
StartJob(j) ==
    /\ jobPhase[j] = "created"
    /\ EarlierStagesPassed(j)
    /\ Cardinality({k \in Jobs : jobPhase[k] \in Running}) < MaxConcurrent
    /\ jobPhase' = [jobPhase EXCEPT ![j] = "fetch"]
    /\ jobEnv' = [jobEnv EXCEPT ![j] = JobStartEnv(j)]
    /\ jobRan' = [jobRan EXCEPT ![j] =
          <<"setup_conda">> \o
          (IF JobStartEnv(j)["TEST_PACKAGING"] = "true"
           THEN <<"conda install conda-build">> ELSE <<>>)]
    /\ UNCHANGED <<jobFailed, faults, othersCI>>

\* a job of a stage failed: the jobs of the later stages are never started
CancelLaterStages ==
    /\ \E j, k \in Jobs : /\ jobPhase[j] = "created"
                         /\ StageIndex(StageOf(k)) < StageIndex(StageOf(j))
                         /\ jobPhase[k] = "failed"
    /\ jobPhase' = [j \in Jobs |->
          IF /\ jobPhase[j] = "created"
             /\ \E k \in Jobs :
                   /\ StageIndex(StageOf(k)) < StageIndex(StageOf(j))
                   /\ jobPhase[k] = "failed"
          THEN "canceled" ELSE jobPhase[j]]
    /\ UNCHANGED <<jobEnv, jobRan, jobFailed, faults, othersCI>>

\* if $FETCH_GAMMAPY_DATA; then export GAMMAPY_DATA=...; pip install -e .;
\*     gammapy download datasets --out=$GAMMAPY_DATA ...; fi
FetchStep(j) ==
    /\ jobPhase[j] = "fetch"
    /\ IF jobEnv[j]["FETCH_GAMMAPY_DATA"] = "true"
       THEN /\ jobEnv' = [jobEnv EXCEPT ![j]["GAMMAPY_DATA"] =
                              "${HOME}/gammapy-data"]
            /\ jobRan' = [jobRan EXCEPT ![j] =
                              @ \o <<"pip install -e .", "gammapy download">>]
       ELSE UNCHANGED <<jobEnv, jobRan>>
    /\ jobPhase' = [jobPhase EXCEPT ![j] = "run_install"]
    /\ UNCHANGED <<jobFailed, faults, othersCI>>

\* if $RUN_INSTALL; then pip install -e .; fi
RunInstallStep(j) ==
    /\ jobPhase[j] = "run_install"
    /\ IF jobEnv[j]["RUN_INSTALL"] = "true"
       THEN jobRan' = [jobRan EXCEPT ![j] = Append(@, "pip install -e .")]
       ELSE UNCHANGED jobRan
    /\ jobPhase' = [jobPhase EXCEPT ![j] = "cmd"]
    /\ UNCHANGED <<jobEnv, jobFailed, faults, othersCI>>

\* what the shell runs for the line `$CMD`: the value of CMD, nothing when
\* CMD is unset or empty
ScriptCommand(env) == IF env["CMD"] = "" THEN <<>> ELSE <<env["CMD"]>>

\* $CMD, then after_success (codecov when TEST_COVERAGE) if nothing failed.
\* ok is the exit status of the command; an empty line returns 0.
CmdStep(j, ok) ==
    /\ jobPhase[j] = "cmd"
    /\ ScriptCommand(jobEnv[j]) = <<>> => ok
    /\ ~ok => faults < MaxFaults
    /\ faults' = IF ok THEN faults ELSE faults + 1
    /\ jobFailed' = [jobFailed EXCEPT ![j] = ~ok]
    /\ jobRan' = [jobRan EXCEPT ![j] =
          @ \o ScriptCommand(jobEnv[j]) \o
          (IF ok /\ jobEnv[j]["TEST_COVERAGE"] = "true"
           THEN <<"codecov -X gcov">> ELSE <<>>)]
    /\ jobPhase' = [jobPhase EXCEPT ![j] = IF ok THEN "passed" ELSE "failed"]
    /\ UNCHANGED <<jobEnv, othersCI>>

NextCI ==
    \/ \E j \in Jobs : StartJob(j)
    \/ CancelLaterStages
    \/ \E j \in Jobs : FetchStep(j)
    \/ \E j \in Jobs : RunInstallStep(j)
    \/ \E j \in Jobs, ok \in BOOLEAN : CmdStep(j, ok)

\* a build as the runner creates it: every job of the matrix waits
InitBuild ==
    /\ jobPhase = [j \in Jobs |-> "created"]
    /\ jobEnv = [j \in Jobs |-> [v \in EnvVars |-> ""]]
    /\ jobRan = [j \in Jobs |-> <<>>]
    /\ jobFailed = [j \in Jobs |-> FALSE]
    /\ faults = 0

(***************************************************************************)
(* Initial states and specifications.                                      *)
(***************************************************************************)
\* a file left by an earlier run of analysis_2
StaleFile == [exists |-> TRUE,
              data |-> [exists |-> TRUE, obs |-> 0, counts |-> 0,
                        makers |-> <<>>, models |-> "stale"]]

\* the disk: $GAMMAPY_DATA downloaded or not, output of an earlier run or none
DiskStates ==
    {[p \in Paths |->
        CASE p \in {HessDir, CatalogDir} -> IF data THEN Folder ELSE NoFile
          [] p = OutDir -> IF old THEN Folder ELSE NoFile
          [] p = OutFile -> IF old THEN StaleFile ELSE NoFile]
     : data \in BOOLEAN, old \in BOOLEAN}

FreshDisk == [p \in Paths |->
                 IF p \in {HessDir, CatalogDir} THEN Folder ELSE NoFile]

ErrPairs == ErrnValues \X ErrpValues

\* the flux point tables of the three sources: MaxRows rows at most
InitCatalogs ==
    \E n1, n2, n3 \in 0..MaxRows :
        /\ n1 + n2 + n3 <= MaxRows
        /\ catalogs \in
             {[c \in Range(CatNames) |->
                  CASE c = "gamma-cat" -> a [] c = "3fhl" -> b [] c = "3fgl" -> d]
              : a \in [1..n1 -> ErrPairs], b \in [1..n2 -> ErrPairs],
                d \in [1..n3 -> ErrPairs]}

\* the inputs of a notebook that is not run are held at one value
OneArchive ==
    /\ obs_table = [i \in ObsIds |-> i]
    /\ inCircle = ObsIds
    /\ events = [o \in ObsIds |-> CHOOSE n \in CountValues : TRUE]

OneCatalog == catalogs = [c \in Range(CatNames) |-> <<>>]

\* analysis_2 run top to bottom in a fresh kernel
Init ==
    /\ InitArchive
    /\ InitKernelA
    /\ files \in DiskStates
    /\ OneCatalog
    /\ InitKernelB
    /\ InitBuild

Spec == Init /\ [][NextA]_vars

\* sed_fitting run top to bottom in a fresh kernel
InitSed ==
    /\ OneArchive
    /\ InitKernelA
    /\ files \in {d \in DiskStates : ~d[OutDir].exists}
    /\ InitCatalogs
    /\ InitKernelB
    /\ InitBuild

SpecSed == InitSed /\ [][NextB]_vars

\* one build of the matrix
InitCI ==
    /\ OneArchive
    /\ InitKernelA
    /\ files = FreshDisk
    /\ OneCatalog
    /\ InitKernelB
    /\ InitBuild

SpecCI == InitCI /\ [][NextCI]_vars

\* both notebooks, each in its own kernel, on one disk: in either order,
\* cell by cell interleaved, or one of them alone.  One row per catalog.
InitNb ==
    /\ OneArchive
    /\ InitKernelA
    /\ files \in {d \in DiskStates : d[HessDir].exists}
    /\ catalogs \in {[c \in Range(CatNames) |-> <<p>>] : p \in ErrPairs}
    /\ InitKernelB
    /\ InitBuild

NextNb == NextA \/ NextB

SpecNb == InitNb /\ [][NextNb]_vars

(***************************************************************************)
(* Properties of analysis_2 (specification Spec).                          *)
(***************************************************************************)
\* the steps (a)..(g) of the overview and the cells that carry them out
StepOrder == <<"a", "b", "c", "d", "e", "f", "g">>

StepOfCell(c) ==
    CASE c = "data_store" -> "a"
      [] c \in {"select", "get_obs"} -> "b"
      [] c \in {"geom", "create"} -> "c"
      [] c = "loop" -> "d"
      [] c = "assign" -> "e"
      [] c = "fit" -> "f"
      [] c \in {"fpe_run", "plot_flux_points"} -> "g"
      [] OTHER -> ""

StepRank(st) == CHOOSE i \in 1..Len(StepOrder) : StepOrder[i] = st

\* the steps of a log of cells, a step carried out by cells that follow one
\* another counted once
RECURSIVE StepTrace(_)
StepTrace(log) ==
    IF log = <<>> THEN <<>>
    ELSE LET rest == StepTrace(SubSeq(log, 1, Len(log) - 1))
             st == StepOfCell(log[Len(log)])
         IN IF st = "" \/ (rest # <<>> /\ rest[Len(rest)] = st)
            THEN rest ELSE Append(rest, st)

\* C1: the steps (a)..(g) of analysis_2 happen in this order, each at most
\* once per run, all of them in a run that reaches its end, and a step is
\* started only when every cell of every earlier step has run to completion.
C1_StepsInOrder ==
    /\ IsPrefix(StepTrace(logA), StepOrder)
    /\ \A i, j \in 1..Len(logA) : logA[i] = logA[j] => i = j
    /\ pcA = "done" => StepTrace(logA) = StepOrder
    /\ \A c \in Range(CellsA) :
          (pcA \in Range(CellsA) /\ StepOfCell(pcA) # "" /\ StepOfCell(c) # ""
             /\ StepRank(StepOfCell(c)) < StepRank(StepOfCell(pcA)))
          => c \in Range(logA)

\* a complete run whose loop went over two observations or more
C1_Witness == pcA = "done" /\ Len(observations) >= 2

MakerOrder == <<"cutout", "MapDatasetMaker", "FoVBackgroundMaker",
                "SafeMaskMaker">>

LoopFinished == "loop" \in Range(logA)

StackedObs == {stackedLog[i].ds.obs : i \in 1..Len(stackedLog)}

\* C2: in the reduction loop the makers are applied in the order cutout,
\* MapDatasetMaker, FoVBackgroundMaker, SafeMaskMaker; what is stacked is
\* the dataset the last maker returned for the observation of the
\* iteration; no observation is stacked twice, none outside the selection
\* is stacked, and once the loop has ended every selected one is stacked.
C2_MakersThenStack ==
    /\ IsPrefix(dataset.makers, MakerOrder)
    /\ \A i \in 1..Len(stackedLog) :
          /\ stackedLog[i].ds.makers = MakerOrder
          /\ stackedLog[i].ds.obs = observations[stackedLog[i].pos]
          /\ stackedLog[i].ds.obs \in inCircle
          /\ \A j \in 1..Len(stackedLog) :
                stackedLog[i].ds.obs = stackedLog[j].ds.obs => i = j
    /\ LoopFinished => StackedObs = inCircle

\* the loop ended after two stacks, with an observation outside the circle
C2_Witness ==
    /\ LoopFinished
    /\ Len(stackedLog) >= 2
    /\ inCircle # ObsIds

\* C3: stacking is a sum.  After the loop the stacked counts are the sum of
\* the counts of the reduced datasets of the selected observations, on top
\* of the empty dataset, whatever the order of the table; during the loop
\* they are the sum over the observations stacked so far.
C3_StackIsSum ==
    /\ stacked.exists =>
          stacked.counts = SetSum(StackedObs, events)
    /\ LoopFinished => stacked.counts = SetSum(inCircle, events)

\* the loop ended, the table is not in ascending order and two observations
\* with different counts were stacked
C3_Witness ==
    /\ LoopFinished
    /\ \E i, j \in 1..Len(observations) :
          /\ i < j
          /\ observations[i] > observations[j]
          /\ events[observations[i]] # events[observations[j]]

LoopStatements == {"cutout", "maker.run", "maker_fov.run",
                   "maker_safe_mask.run", "stack"}

\* the cell a failure belongs to
FailedCell == IF failedA \in LoopStatements THEN "loop" ELSE failedA

\* C4: a failure of a library call ends the run at that cell.  The cells
\* that ran are exactly those before it (the cell is not retried, none
\* after it runs) and nothing can happen after the error; a failure inside
\* the loop leaves the later observations unprocessed and the partly
\* stacked dataset neither written nor fitted; without the data directory
\* the data store is not opened.
C4_FailureEndsRun ==
    /\ pcA = "error" <=> failedA # ""
    /\ pcA = "error" =>
          /\ logA = SubSeq(CellsA, 1, IndexA(FailedCell) - 1)
          /\ ~ENABLED NextA
    /\ (pcA = "error" /\ FailedCell = "loop") =>
          /\ Len(stackedLog) = loopI - 1
          /\ \A i \in 1..Len(stackedLog) : stackedLog[i].pos < loopI
          /\ OutFile \notin writesA
          /\ files[OutFile] \in {NoFile, StaleFile}
          /\ fitRuns = <<>>
    /\ data_store => files[HessDir].exists

\* the loop failed with one observation stacked and one more to come
C4_Witness ==
    /\ pcA = "error"
    /\ FailedCell = "loop"
    /\ Len(stackedLog) >= 1
    /\ loopI < Len(observations)

\* C10: execution is sequential.  At most one observation is in work at a
\* time, and only while the loop cell is the one running; an observation is
\* taken up only when every one before it in the list has been stacked, so
\* stack calls come one after the other in list order.
C10_OneAtATime ==
    /\ Cardinality(inflight) <= 1
    /\ inflight # {} => (pcA = "loop" \/ (pcA = "error" /\ FailedCell = "loop"))
    /\ \A k \in inflight \cup {stackedLog[i].pos : i \in 1..Len(stackedLog)} :
          \A j \in 1..(k - 1) : \E i \in 1..Len(stackedLog) : stackedLog[i].pos = j
    /\ \A i \in 1..Len(stackedLog) : stackedLog[i].pos = i

\* the second observation is in work after the first was stacked
C10_Witness ==
    /\ pcA = "loop"
    /\ inflight = {2}
    /\ Len(stackedLog) = 1
    /\ loopPos = "stack"

\* the file holds the dataset as the loop left it, without a model
WrittenComplete ==
    /\ LoopFinished
    /\ StackedObs = Range(observations)
    /\ Len(stackedLog) = Len(observations)
    /\ files[OutFile].exists
    /\ files[OutFile].data = [stacked EXCEPT !.models = ""]

\* C11: crab-stacked-dataset.fits.gz is written only by the write cell,
\* after the loop has stacked every selected observation and before the
\* model is assigned and the fit is run; from then on the file holds the
\* complete stacked data without a model, and no later step changes it.
C11_WrittenBeforeModel ==
    /\ [](OutFile \in writesA => WrittenComplete)
    /\ [](OutFile \notin writesA =>
            /\ files[OutFile] \in {NoFile, StaleFile}
            /\ "assign" \notin Range(logA)
            /\ fitRuns = <<>>
            /\ fpeRuns = <<>>)
    /\ [][files'[OutFile] # files[OutFile] =>
            /\ pcA = "write"
            /\ LoopFinished
            /\ stacked.models = ""
            /\ fitRuns = <<>>
            /\ OutFile \in writesA'
         ]_vars

\* a complete run over two observations or more: the dataset in memory has
\* its model and was fitted, the file has the same counts and no model
C11_Witness ==
    /\ pcA = "done"
    /\ OutFile \in writesA
    /\ Len(stackedLog) >= 2
    /\ stacked.models = "crab"
    /\ fitRuns # <<>>
    /\ files[OutFile].data.models = ""
    /\ files[OutFile].data.counts = stacked.counts

\* C14: when fpe.run() is called, the stacked dataset carries a model whose
\* name is the source the estimator was given, "crab", and the fit of the
\* dataset with that model has already run; the estimator is created only
\* after the model was assigned and fitted.
C14_EstimatorSourceFitted ==
    /\ \A i \in 1..Len(fpeRuns) :
          /\ fpeRuns[i].source = "crab"
          /\ fpeRuns[i].models = fpeRuns[i].source
          /\ fpeRuns[i].fitted
          /\ \E k \in 1..Len(fitRuns) :
                /\ fitRuns[k].models = fpeRuns[i].source
                /\ fitRuns[k].counts = stacked.counts
    /\ fpe # "" =>
          /\ fpe = stacked.models
          /\ fitRuns # <<>>

\* the estimator ran on a dataset stacked from two observations or more
C14_Witness ==
    /\ Len(fpeRuns) = 1
    /\ fpeRuns[1].models = "crab"
    /\ Len(stackedLog) >= 2

(***************************************************************************)
(* Properties of the CI build (specification SpecCI).                      *)
(***************************************************************************)
\* the command a matrix entry declares in its env
DeclaredCommand(j) ==
    (CHOOSE p \in Matrix[j].env : p[1] \in {"CMD", "SETUP_CMD"})[2]

JobOver(j) == jobPhase[j] \in {"passed", "failed"}

\* C5: every job of the matrix runs the command its entry declares in the
\* script phase, the job "Test with Sherpa dev" (make test) included.
C5_EveryJobRunsItsCommand ==
    \A j \in Jobs : JobOver(j) => DeclaredCommand(j) \in Range(jobRan[j])

InitialJobs == {j \in Jobs : StageOf(j) = "Initial tests"}

ComprehensiveJobs == {j \in Jobs : Matrix[j].stage = ""}

Started(j) == jobPhase[j] \notin {"created", "canceled"}

\* C6: the stage "Initial tests" is a single job; no job without a stage
\* key starts before every job of "Initial tests" has finished, and none
\* starts if one of them failed.
C6_SingleInitialJobFirst ==
    /\ Cardinality({j \in InitialJobs : Started(j)}) <= 1
    /\ \A j \in ComprehensiveJobs :
          Started(j) => \A k \in InitialJobs : jobPhase[k] = "passed"
    /\ (\E k \in InitialJobs : jobPhase[k] = "failed")
          => \A j \in ComprehensiveJobs : ~Started(j)

AtCommand(j) == jobPhase[j] \in {"cmd", "passed", "failed"}

DataSet(j) == jobEnv[j]["GAMMAPY_DATA"] # ""

Downloaded(j) == "gammapy download" \in Range(jobRan[j])

NamedJob(n) == CHOOSE j \in Jobs : Matrix[j].name = n

StackInput == flux_points_cat["gamma-cat"] \o flux_points_cat["3fhl"]
                 \o flux_points_cat["3fgl"]

BothFinite(r) == r.errn.kind = "fin" /\ r.errp.kind = "fin"

KeptIndices == {i \in 1..Len(StackInput) : BothFinite(StackInput[i])}

\* the n-th smallest element of a set of numbers
NthOf(S, n) == CHOOSE i \in S : Cardinality({j \in S : j < i}) = n - 1

WithoutErr(r) == [cat |-> r.cat, k |-> r.k, sed |-> r.sed, conv |-> r.conv,
                  errn |-> r.errn, errp |-> r.errp]

Filtered == "stack_filter" \in Range(logB)

StackableRow(r) ==
    /\ r.sed = "dnde"
    /\ r.conv = (IF r.cat \in {"3fgl", "3fhl"} THEN r.cat ELSE "")

\* C13: every table that enters FluxPoints.stack is differential: the 3FGL
\* and 3FHL tables were converted with to_sed_type("dnde") and the spectral
\* model of their own source before the stack, no row of a catalog is
\* missing from the stack, and every fit runs after the stack was built.
C13_DndeBeforeStack ==
    /\ Filtered =>
          /\ "to_sed_type" \in Range(logB)
          /\ Len(tableB) = SeqSum([i \in 1..Len(CatNames) |->
                                     Len(catalogs[CatNames[i]])])
          /\ \A i \in 1..Len(tableB) : StackableRow(tableB[i])
          /\ \A i \in 1..Len(flux_pointsB) : StackableRow(flux_pointsB[i])
    /\ \A c \in {"3fgl", "3fhl"} :
          \A i \in 1..Len(flux_points_cat[c]) :
              StackableRow(flux_points_cat[c][i])
    /\ \A k \in 1..Len(fitsB) :
          /\ Filtered
          /\ \A i \in 1..Len(fitsB[k].points) : StackableRow(fitsB[k].points[i])

\* the three fits ran on a stack holding a converted row of each Fermi-LAT
\* catalog and a gamma-cat row
C13_Witness ==
    /\ Len(fitsB) = 3
    /\ \E i \in 1..Len(flux_pointsB) : flux_pointsB[i].cat = "3fgl"
    /\ \E i \in 1..Len(flux_pointsB) : flux_pointsB[i].cat = "3fhl"
    /\ \E i \in 1..Len(flux_pointsB) : flux_pointsB[i].cat = "gamma-cat"

(***************************************************************************)
(* Properties of the two notebooks together (specification SpecNb).        *)
(***************************************************************************)
\* C9: the notebooks are independent.  A step of one kernel changes no
\* variable of the other; sed_fitting changes no file; analysis_2 changes
\* only its output folder and crab-stacked-dataset.fits.gz; and
\* sed_fitting reads no path analysis_2 writes.
C9_Independent ==
    /\ [][/\ varsB' # varsB => (varsA' = varsA /\ files' = files)
          /\ varsA' # varsA => varsB' = varsB
          /\ \A p \in Paths : files'[p] # files[p] => p \in {OutDir, OutFile}
         ]_vars
    /\ [](readsB \cap writesA = {})
    /\ [](writesA \subseteq {OutDir, OutFile})

\* both notebooks ran to their end, the file written and the catalogs read
C9_Witness ==
    /\ pcA = "done"
    /\ pcB = "done"
    /\ OutFile \in writesA
    /\ CatalogDir \in readsB

\* C12: plot_error is called on a spectral model only after the fit with
\* that model has run and the covariance of the fit result was copied on
\* its parameters: in analysis_2 for both plot_error cells, in sed_fitting
\* for each of pwl, ecpl and log_parabola, whose covariance is that of the
\* result of its own fit and of no other model's.
C12_PlotErrorAfterFit ==
    /\ \A i \in 1..Len(plotsA) :
          /\ plotsA[i].fitted
          /\ plotsA[i].cov
          /\ sky_model # ""
          /\ \E k \in 1..Len(fitRuns) : fitRuns[k].models = sky_model
    /\ covarSet => fitRuns # <<>>
    /\ \A i \in 1..Len(plotsB) :
          LET m == plotsB[i].model IN
          /\ plotsB[i].cov = m
          /\ \E k \in 1..Len(fitsB) :
                fitsB[k].model = m /\ fitsB[k].result = ResultVar(m)
    /\ \A m \in ModelsB : covB[m] \in {"", m}

\* both plot_error cells of analysis_2 and the three of sed_fitting ran
C12_Witness ==
    /\ Len(plotsA) = 2
    /\ Len(plotsB) = 3
    /\ \A m \in ModelsB : covB[m] = m

====
